---------------------------- MODULE Spec2Model ----------------------------
(***************************************************************************)
(* A model of phone_numbers.py: the PhoneNumber class (constructor,        *)
(* __int__, __str__, __repr__, __lt__), read_numbers and main.             *)
(*                                                                         *)
(* Text is a sequence of one-character strings.  A Python int is a record  *)
(* [neg, hi, lo] of value (hi * 100000 + lo), negated when neg, so that    *)
(* ten- and eleven-digit values are exact.                                 *)
(***************************************************************************)
EXTENDS Integers, Sequences, FiniteSets, TLC

VARIABLES
  number,      \* the argument of PhoneNumber(number)
  pc,          \* where the object under test is: "start", "constructed", "raised", "called"
  number_str,  \* PhoneNumber.__init__'s local number_str after re.sub
  stack,       \* PhoneNumber.__init__'s local stack after the loop
  self,        \* the constructed object (None when the constructor raised)
  exc,         \* the exception PhoneNumber.__init__ raised, if any
  ret,         \* what the last method call on self returned or raised
  lines_read,  \* read_numbers: the lines of the file consumed so far
  tup_list,    \* read_numbers: tup_list
  dpc,         \* read_numbers/main: "reading", "returned", "raised"
  derr,        \* the exception that left read_numbers, if any
  output       \* main: the lines printed so far

ctor_vars == <<number, pc, number_str, stack, self, exc, ret>>
dir_vars  == <<lines_read, tup_list, dpc, derr, output>>
vars      == <<number, pc, number_str, stack, self, exc, ret,
               lines_read, tup_list, dpc, derr, output>>

----------------------------------------------------------------------------
(* Characters *)

DigitSeq == <<"0", "1", "2", "3", "4", "5", "6", "7", "8", "9">>
Digits   == {DigitSeq[i] : i \in 1..10}
UpperLetters == {"A","B","C","D","E","F","G","H","I","J","K","L","M",
                 "N","O","P","Q","R","S","T","U","V","W","X","Y","Z"}
LowerLetters == {"a","b","c","d","e","f","g","h","i","j","k","l","m",
                 "n","o","p","q","r","s","t","u","v","w","x","y","z"}
Whitespace == {" ", "\t", "\n"}

DigitVal(c) == (CHOOSE i \in 1..10 : DigitSeq[i] = c) - 1
DigitChar(d) == DigitSeq[d + 1]

----------------------------------------------------------------------------
(* Python int and its conversions *)

PyInt(neg, hi, lo) == [neg |-> neg, hi |-> hi, lo |-> lo]
Zero == PyInt(FALSE, 0, 0)

RECURSIVE Dec(_)
\* the decimal digits of a natural number, no leading zeros
Dec(n) == IF n < 10 THEN <<DigitChar(n)>> ELSE Append(Dec(n \div 10), DigitChar(n % 10))

RECURSIVE ZeroPad(_, _)
ZeroPad(s, w) == IF Len(s) >= w THEN s ELSE ZeroPad(<<"0">> \o s, w)

\* str(n) for an int n
IntToStr(n) ==
  (IF n.neg THEN <<"-">> ELSE <<>>) \o
  (IF n.hi = 0 THEN Dec(n.lo) ELSE Dec(n.hi) \o ZeroPad(Dec(n.lo), 5))

RECURSIVE DigitsValue(_)
DigitsValue(s) == IF s = <<>> THEN 0
                  ELSE DigitsValue(SubSeq(s, 1, Len(s) - 1)) * 10 + DigitVal(s[Len(s)])

\* int(s) for a string s of ASCII letters and digits: ValueError unless all are digits
ParseInt(s) ==
  IF s = <<>> \/ \E i \in 1..Len(s) : s[i] \notin Digits
    THEN [ok |-> FALSE, val |-> Zero]
    ELSE [ok |-> TRUE,
          val |-> IF Len(s) <= 5 THEN PyInt(FALSE, 0, DigitsValue(s))
                  ELSE PyInt(FALSE, DigitsValue(SubSeq(s, 1, Len(s) - 5)),
                                    DigitsValue(SubSeq(s, Len(s) - 4, Len(s))))]

\* a < b on non-negative ints
IntLess(a, b) == a.hi < b.hi \/ (a.hi = b.hi /\ a.lo < b.lo)

----------------------------------------------------------------------------
(* PhoneNumber *)

LETTER_TO_NUMBER ==
  "A" :> "2" @@ "B" :> "2" @@ "C" :> "2" @@
  "D" :> "3" @@ "E" :> "3" @@ "F" :> "3" @@
  "G" :> "4" @@ "H" :> "4" @@ "I" :> "4" @@
  "J" :> "5" @@ "K" :> "5" @@ "L" :> "5" @@
  "M" :> "6" @@ "N" :> "6" @@ "O" :> "6" @@
  "P" :> "7" @@ "Q" :> "7" @@ "R" :> "7" @@ "S" :> "7" @@
  "T" :> "8" @@ "U" :> "8" @@ "V" :> "8" @@
  "W" :> "9" @@ "X" :> "9" @@ "Y" :> "9" @@ "Z" :> "9"

\* the arguments: a str, an int, or a value of another type
StrArg(s)   == [kind |-> "str", text |-> s, val |-> Zero]
IntArg(n)   == [kind |-> "int", text |-> <<>>, val |-> n]
OtherArg    == [kind |-> "other", text |-> <<>>, val |-> Zero]

NoExc == [type |-> "none", msg |-> ""]
TypeErrorExc   == [type |-> "TypeError", msg |-> "Phone number must be a string or integer."]
LengthErrorExc == [type |-> "ValueError", msg |-> "Phone number must have exactly 10 or 11 digits."]
CodeErrorExc   == [type |-> "ValueError",
                   msg |-> "Phone number contains an invalid area code or exchange code."]

PhoneObj(a, e, l) == [area_code |-> a, exchange_code |-> e, line_number |-> l]
None == PhoneObj(<<>>, <<>>, <<>>)

\* str(number)
ToText(num) == IF num.kind = "int" THEN IntToStr(num.val) ELSE num.text

\* the class [^0-9a-zA-Z] does not match c
Alnum(c) == c \in Digits \cup LowerLetters \cup UpperLetters

\* re.sub(r'[^0-9a-zA-Z]', '', s)
ReSub(s) == SelectSeq(s, Alnum)

\* the loop building stack
TranslateChar(c) == IF c \in DOMAIN LETTER_TO_NUMBER THEN LETTER_TO_NUMBER[c] ELSE c
Translate(s) == [i \in 1..Len(s) |-> TranslateChar(s[i])]

\* stack[a:b] for 0 <= a <= b
Slice(s, a, b) == SubSeq(s, a + 1, IF b < Len(s) THEN b ELSE Len(s))
SliceFrom(s, a) == SubSeq(s, a + 1, Len(s))

\* AcceptedLength without the test of the first character
AcceptedLengthAnyLead(ns) == Len(ns) = 10 \/ Len(ns) = 11

AcceptedLength(ns) == Len(ns) = 10 \/ (Len(ns) = 11 /\ ns[1] = "1")

\* Decompose with the slices of the ten-character branch in both branches
DecomposeNoSkip(ns, st) == PhoneObj(Slice(st, 0, 3), Slice(st, 3, 6), SliceFrom(st, 6))

\* the fields assigned by the if/elif
Decompose(ns, st) ==
  IF Len(ns) = 10
    THEN PhoneObj(Slice(st, 0, 3), Slice(st, 3, 6), SliceFrom(st, 6))
    ELSE PhoneObj(Slice(st, 1, 4), Slice(st, 4, 7), SliceFrom(st, 7))

invalid_codes == { <<"0","1","1">>, <<"1","1","1">>, <<"2","1","1">>, <<"3","1","1">>,
                   <<"4","1","1">>, <<"5","1","1">>, <<"6","1","1">>, <<"7","1","1">>,
                   <<"8","1","1">>, <<"9","1","1">> }

\* InvalidCode without the test against invalid_codes
InvalidCodeNoList(o) ==
  \/ o.area_code[1] \in {"0", "1"}
  \/ o.exchange_code[1] \in {"0", "1"}
  \/ SliceFrom(o.exchange_code, 1) = <<"1", "1">>

\* the two checks that raise the invalid-code ValueError
InvalidCode(o) ==
  \/ o.area_code[1] \in {"0", "1"}
  \/ o.exchange_code[1] \in {"0", "1"}
  \/ SliceFrom(o.exchange_code, 1) = <<"1", "1">>
  \/ o.area_code \in invalid_codes
  \/ o.exchange_code \in invalid_codes

\* PhoneNumber(number): the exception raised (NoExc when none) and the object
PhoneNumberInit(num) ==
  IF num.kind \notin {"str", "int"}
    THEN [exc |-> TypeErrorExc, obj |-> None]
    ELSE LET ns == ReSub(ToText(num))
             st == Translate(ns)
         IN  IF ~AcceptedLength(ns)
               THEN [exc |-> LengthErrorExc, obj |-> None]
               ELSE LET o == Decompose(ns, st)
                    IN  IF InvalidCode(o) THEN [exc |-> CodeErrorExc, obj |-> None]
                        ELSE [exc |-> NoExc, obj |-> o]

\* PhoneInt with the two codes in the wrong order
PhoneIntSwapped(o) == ParseInt(o.exchange_code \o o.area_code \o o.line_number)

\* int(self)
PhoneInt(o) == ParseInt(o.area_code \o o.exchange_code \o o.line_number)

\* PhoneStr with the line number printed as an int, its leading zero lost
PhoneStrIntLine(o) ==
  <<"(">> \o o.area_code \o <<")", " ">> \o o.exchange_code \o <<"-">>
  \o (IF o.line_number[1] = "0" THEN Tail(o.line_number) ELSE o.line_number)

\* str(self)
PhoneStr(o) == <<"(">> \o o.area_code \o <<")", " ">> \o o.exchange_code
               \o <<"-">> \o o.line_number

\* repr(self); int(self) may raise
PhoneRepr(o) ==
  IF PhoneInt(o).ok
    THEN [ok |-> TRUE,
          text |-> <<"P","h","o","n","e","N","u","m","b","e","r","(","'">>
                   \o IntToStr(PhoneInt(o).val) \o <<"'", ")">>]
    ELSE [ok |-> FALSE, text |-> <<>>]

\* self < other: "True", "False", or "ValueError" when int() raises
PhoneLt(a, b) ==
  IF ~PhoneInt(a).ok \/ ~PhoneInt(b).ok THEN "ValueError"
  ELSE IF IntLess(PhoneInt(a).val, PhoneInt(b).val) THEN "True" ELSE "False"


\* list.sort(key=lambda x: x[1]): a stable sort comparing the keys with <
RECURSIVE InsertSorted(_, _)
InsertSorted(sorted, e) ==
  IF sorted = <<>> THEN <<e>>
  ELSE LET last == sorted[Len(sorted)]
       IN  IF PhoneLt(e.number, last.number) = "True"
             THEN Append(InsertSorted(SubSeq(sorted, 1, Len(sorted) - 1), e), last)
             ELSE Append(sorted, e)

\* SortByNumber that leaves the list in file order
Unsorted(l) == l

RECURSIVE SortByNumber(_)
SortByNumber(l) ==
  IF l = <<>> THEN <<>>
  ELSE InsertSorted(SortByNumber(SubSeq(l, 1, Len(l) - 1)), l[Len(l)])

\* the sort compares every element of a list of two or more, and a comparison
\* raises what int() raises
SortRaises(l) == Len(l) >= 2 /\ \E i \in 1..Len(l) : ~PhoneInt(l[i].number).ok

\* str.strip()
RECURSIVE Strip(_)
Strip(s) ==
  IF s = <<>> THEN s
  ELSE IF s[1] \in Whitespace THEN Strip(Tail(s))
  ELSE IF s[Len(s)] \in Whitespace THEN Strip(SubSeq(s, 1, Len(s) - 1))
  ELSE s

\* str.split(sep)
RECURSIVE Split(_, _)
Split(s, sep) ==
  IF \A i \in 1..Len(s) : s[i] # sep THEN <<s>>
  ELSE LET i == CHOOSE k \in 1..Len(s) : s[k] = sep /\ \A j \in 1..(k - 1) : s[j] # sep
       IN  <<SubSeq(s, 1, i - 1)>> \o Split(SubSeq(s, i + 1, Len(s)), sep)

UnpackErrorExc == [type |-> "ValueError", msg |-> "not enough values to unpack"]
IntErrorExc    == [type |-> "ValueError", msg |-> "invalid literal for int() with base 10"]

Entry(n, o) == [name |-> n, number |-> o]

----------------------------------------------------------------------------
(* Bounds and inputs *)

\* how far the number of characters of an argument departs from ten
LenSlack == 1
\* the number of lines of the file
MaxLines == 3

FirstChars == {"0", "1", "2", "9", "A", "a"}
TailPairs  == {<<"1","1">>, <<"1","2">>, <<"0","0">>, <<"b","Z">>}
Codes      == {<<f>> \o t : f \in FirstChars, t \in TailPairs}
LineBases  == {<<"0","1","9","9","7","3","4","2","8">>, <<"w","X","0","5","5","k","1","1","1">>}
LineParts  == {SubSeq(b, 1, k) : b \in LineBases, k \in (4 - LenSlack)..(4 + LenSlack)}
Prefixes   == {<<>>, <<"1">>, <<"2">>, <<"+","1"," ">>, <<"a">>}

Plain(p, a, e, l)   == p \o a \o e \o l
Display(p, a, e, l) == p \o <<"(">> \o a \o <<")"," ">> \o e \o <<"-">> \o l

CodeNums == {11, 111, 211, 212, 900, 999}
LineNums == {100, 9973}
\* the int whose decimal digits are lead, a (3 digits), e (3 digits), l (4 digits)
IntOfParts(neg, lead, a, e, l) ==
  PyInt(neg, lead * 100000 + a * 100 + e \div 10, (e % 10) * 10000 + l)
Names == {<<"A","l">>, <<"B","o">>}
DirNumbers == {
  <<"2","1","2","-","5","5","5","-","0","1","0","0">>,
  <<"(","2","0","2",")"," ","5","5","5","-","0","1","9","9">>,
  <<"1"," ","2","1","2"," ","5","5","5"," ","0","1","0","0">>,
  <<"1","-","8","0","0","-","F","L","O","W","E","R","S">>,
  <<"1","2","3","-","4","5","6","-","7","8","9","0">>,
  <<"5","5","5","-","0","1","0","0">>,
  <<>>,
  <<"2","1","2","-","5","5","5","-","a","b","c","d">> }
FileLines == {n \o <<"\t">> \o t \o <<"\n">> : n \in Names, t \in DirNumbers}

NoRet == [op |-> "none", exc |-> NoExc, int |-> Zero, text |-> <<>>, obj |-> None]

----------------------------------------------------------------------------
(* The constructor and the methods, applied to one argument *)

CtorIdle == /\ number = OtherArg /\ pc = "idle" /\ number_str = <<>> /\ stack = <<>>
            /\ self = None /\ exc = NoExc /\ ret = NoRet
DirIdle  == /\ lines_read = <<>> /\ tup_list = <<>> /\ dpc = "idle"
            /\ derr = NoExc /\ output = <<>>

\* the argument is a str in one of two layouts, an int, or of another type
InitCtor ==
  /\ \/ \E p \in Prefixes, a \in Codes, e \in Codes, l \in LineParts :
          \/ number = StrArg(Plain(p, a, e, l))
          \/ number = StrArg(Display(p, a, e, l))
     \/ \E neg \in BOOLEAN, lead \in 0..(1 + LenSlack), a \in CodeNums, e \in CodeNums,
           l \in LineNums :
          number = IntArg(IntOfParts(neg, lead, a, e, l))
     \/ number = OtherArg
  /\ pc = "start"
  /\ number_str = <<>> /\ stack = <<>>
  /\ self = None /\ exc = NoExc /\ ret = NoRet
  /\ DirIdle

\* PhoneNumber(number)
Construct ==
  /\ pc = "start"
  /\ LET r == PhoneNumberInit(number)
     IN  /\ exc' = r.exc
         /\ self' = r.obj
         /\ pc' = IF r.exc = NoExc THEN "constructed" ELSE "raised"
  /\ number_str' = IF number.kind \in {"str", "int"} THEN ReSub(ToText(number)) ELSE <<>>
  /\ stack' = IF number.kind \in {"str", "int"} THEN Translate(ReSub(ToText(number))) ELSE <<>>
  /\ UNCHANGED <<number, ret>>
  /\ UNCHANGED dir_vars

\* int(self)
CallInt ==
  /\ pc = "constructed"
  /\ ret' = [NoRet EXCEPT !.op = "int",
                          !.exc = IF PhoneInt(self).ok THEN NoExc ELSE IntErrorExc,
                          !.int = PhoneInt(self).val]
  /\ pc' = "called"
  /\ UNCHANGED <<number, number_str, stack, self, exc>>
  /\ UNCHANGED dir_vars

\* str(self)
CallStr ==
  /\ pc = "constructed"
  /\ ret' = [NoRet EXCEPT !.op = "str", !.text = PhoneStr(self)]
  /\ pc' = "called"
  /\ UNCHANGED <<number, number_str, stack, self, exc>>
  /\ UNCHANGED dir_vars

\* repr(self)
CallRepr ==
  /\ pc = "constructed"
  /\ ret' = [NoRet EXCEPT !.op = "repr",
                          !.exc = IF PhoneRepr(self).ok THEN NoExc ELSE IntErrorExc,
                          !.text = PhoneRepr(self).text]
  /\ pc' = "called"
  /\ UNCHANGED <<number, number_str, stack, self, exc>>
  /\ UNCHANGED dir_vars

\* PhoneNumber(str(self))
Reconstruct ==
  /\ pc = "constructed"
  /\ LET r == PhoneNumberInit(StrArg(PhoneStr(self)))
     IN  ret' = [NoRet EXCEPT !.op = "reconstruct", !.exc = r.exc, !.obj = r.obj,
                              !.text = PhoneStr(self)]
  /\ pc' = "called"
  /\ UNCHANGED <<number, number_str, stack, self, exc>>
  /\ UNCHANGED dir_vars

NextCtor == Construct \/ CallInt \/ CallStr \/ CallRepr \/ Reconstruct
SpecCtor == InitCtor /\ [][NextCtor]_vars

----------------------------------------------------------------------------
(* read_numbers and main *)

Init ==
  /\ lines_read = <<>>
  /\ tup_list = <<>>
  /\ dpc = "reading"
  /\ derr = NoExc
  /\ output = <<>>
  /\ CtorIdle

\* one iteration of "for line in f"
ReadLine(line) ==
  /\ dpc = "reading"
  /\ Len(lines_read) < MaxLines
  /\ lines_read' = Append(lines_read, line)
  /\ LET parts == Split(Strip(line), "\t")
     IN  IF Len(parts) # 2
           THEN /\ dpc' = "raised"
                /\ derr' = UnpackErrorExc
                /\ UNCHANGED tup_list
           ELSE LET r == PhoneNumberInit(StrArg(parts[2]))
                IN  /\ tup_list' = IF r.exc = NoExc
                                     THEN Append(tup_list, Entry(parts[1], r.obj))
                                     ELSE tup_list
                    /\ UNCHANGED <<dpc, derr>>
  /\ UNCHANGED output
  /\ UNCHANGED ctor_vars

\* the end of the file: tup_list.sort(...) and return
EndOfFile ==
  /\ dpc = "reading"
  /\ IF SortRaises(tup_list)
       THEN /\ dpc' = "raised"
            /\ derr' = IntErrorExc
            /\ UNCHANGED tup_list
       ELSE /\ dpc' = "returned"
            /\ tup_list' = SortByNumber(tup_list)
            /\ UNCHANGED derr
  /\ UNCHANGED <<lines_read, output>>
  /\ UNCHANGED ctor_vars

\* one iteration of main's loop: print(f"{number}\t{name}")
PrintEntry ==
  /\ dpc = "returned"
  /\ Len(output) < Len(tup_list)
  /\ LET e == tup_list[Len(output) + 1]
     IN  output' = Append(output, PhoneStr(e.number) \o <<"\t">> \o e.name)
  /\ UNCHANGED <<lines_read, tup_list, dpc, derr>>
  /\ UNCHANGED ctor_vars

Next == (\E line \in FileLines : ReadLine(line)) \/ EndOfFile \/ PrintEntry
Spec == Init /\ [][Next]_vars

----------------------------------------------------------------------------
(* What the claims speak of, stated apart from the code's own helpers *)

IsDigit(c)  == c \in {"0","1","2","3","4","5","6","7","8","9"}
IsLetter(c) == c \in UpperLetters \cup LowerLetters
AllDigits(s) == \A i \in 1..Len(s) : IsDigit(s[i])

\* the keypad table of the specification, for either case
KeypadDigit(c) ==
  IF c \in {"A","B","C","a","b","c"} THEN "2"
  ELSE IF c \in {"D","E","F","d","e","f"} THEN "3"
  ELSE IF c \in {"G","H","I","g","h","i"} THEN "4"
  ELSE IF c \in {"J","K","L","j","k","l"} THEN "5"
  ELSE IF c \in {"M","N","O","m","n","o"} THEN "6"
  ELSE IF c \in {"P","Q","R","S","p","q","r","s"} THEN "7"
  ELSE IF c \in {"T","U","V","t","u","v"} THEN "8"
  ELSE IF c \in {"W","X","Y","Z","w","x","y","z"} THEN "9"
  ELSE c

LowerSeq == <<"a","b","c","d","e","f","g","h","i","j","k","l","m",
              "n","o","p","q","r","s","t","u","v","w","x","y","z">>
UpperSeq == <<"A","B","C","D","E","F","G","H","I","J","K","L","M",
              "N","O","P","Q","R","S","T","U","V","W","X","Y","Z">>
UpperChar(c) == IF c \in LowerLetters
                  THEN UpperSeq[CHOOSE i \in 1..26 : LowerSeq[i] = c] ELSE c
UpperCase(s) == [i \in 1..Len(s) |-> UpperChar(s[i])]

ReservedCodes == {<<d, "1", "1">> : d \in {"0","1","2","3","4","5","6","7","8","9"}}
LeadOk(c) == c \in {"2","3","4","5","6","7","8","9"}

\* the constructor has run on a str or an int
Ran == pc # "start" /\ pc # "idle" /\ number.kind \in {"str", "int"}
Returned == pc \in {"constructed", "called"}

\* the cleaned form of the argument: its letters and digits, in order
Cleaned == SelectSeq(ToText(number), LAMBDA c : IsDigit(c) \/ IsLetter(c))
CleanedAccepted == Len(Cleaned) = 10 \/ (Len(Cleaned) = 11 /\ Cleaned[1] = "1")

\* the ten translated characters that are decomposed, and the two codes in them
Body == IF Len(stack) = 11 THEN Tail(stack) ELSE stack
BodyArea     == SubSeq(Body, 1, 3)
BodyExchange == SubSeq(Body, 4, 6)

\* C1: every PhoneNumber the constructor returns has an area code of 3 digits,
\* first digit 2..9, not reserved; an exchange code of 3 digits, first digit 2..9,
\* not reserved and not ending in 11; and a line number of 4 digits.
C1_FieldsWellFormed ==
  Returned =>
    /\ Len(self.area_code) = 3 /\ AllDigits(self.area_code)
    /\ LeadOk(self.area_code[1]) /\ self.area_code \notin ReservedCodes
    /\ Len(self.exchange_code) = 3 /\ AllDigits(self.exchange_code)
    /\ LeadOk(self.exchange_code[1]) /\ self.exchange_code \notin ReservedCodes
    /\ SubSeq(self.exchange_code, 2, 3) # <<"1", "1">>
    /\ Len(self.line_number) = 4 /\ AllDigits(self.line_number)

\* the codes of a ten-digit text satisfy the structural rules
ValidTenDigits(s) ==
  /\ Len(s) = 10 /\ AllDigits(s)
  /\ LeadOk(s[1]) /\ SubSeq(s, 1, 3) \notin ReservedCodes
  /\ LeadOk(s[4]) /\ SubSeq(s, 4, 6) \notin ReservedCodes
  /\ SubSeq(s, 5, 6) # <<"1", "1">>

\* the argument is a valid ten-digit number n, as a digit string or as an int
ValidTenDigitArg ==
  \/ number.kind = "str" /\ ValidTenDigits(number.text)
  \/ /\ number.kind = "int" /\ ~number.val.neg
     /\ number.val.hi \in 20000..99999
     /\ (number.val.hi \div 100) % 100 # 11
     /\ LET e == (number.val.hi % 100) * 10 + number.val.lo \div 10000
        IN  e >= 200 /\ e % 100 # 11

\* n itself
ArgValue ==
  IF number.kind = "int" THEN number.val
  ELSE PyInt(FALSE, DigitsValue(SubSeq(number.text, 1, 5)),
                    DigitsValue(SubSeq(number.text, 6, 10)))

\* C2: for every valid ten-digit number n, given as a digit string or as an int,
\* PhoneNumber(n) succeeds and int(PhoneNumber(n)) equals n.
C2_IntRoundTrip ==
  (Ran /\ ValidTenDigitArg) =>
    /\ Returned /\ exc = NoExc
    /\ (ret.op = "int" => ret.exc = NoExc /\ ret.int = ArgValue)

C2_Witness ==
  /\ pc = "called" /\ ret.op = "int" /\ ValidTenDigitArg
  /\ number.kind = "int" /\ ret.int.hi > 90000

\* C3: when the cleaned argument has 11 characters, the first being 1, and the
\* other ten form a number the constructor accepts, the constructor drops the 1
\* and yields the fields it yields for those ten characters alone.
C3_LeadingOneDropped ==
  (/\ Ran /\ Len(Cleaned) = 11 /\ Cleaned[1] = "1"
   /\ PhoneNumberInit(StrArg(Tail(Cleaned))).exc = NoExc) =>
    /\ Returned /\ exc = NoExc
    /\ self = PhoneNumberInit(StrArg(Tail(Cleaned))).obj
    /\ self.area_code = SubSeq(stack, 2, 4)

C3_Witness ==
  /\ pc = "constructed" /\ Len(Cleaned) = 11 /\ Cleaned[1] = "1"
  /\ PhoneNumberInit(StrArg(Tail(Cleaned))).exc = NoExc
  /\ self.area_code # SubSeq(stack, 1, 3)

\* C4: when the cleaned argument has neither 10 characters nor 11 characters the
\* first of which is 1, the constructor raises the invalid-length ValueError,
\* never the invalid-code one, whatever the characters are.
C4_BadLengthRaisesLength ==
  (Ran /\ ~CleanedAccepted) => (pc = "raised" /\ exc = LengthErrorExc /\ self = None)

C4_Witness ==
  /\ pc = "raised" /\ exc = LengthErrorExc
  /\ Len(Cleaned) = 11 /\ Cleaned[1] # "1"
  /\ SubSeq(Cleaned, 2, 4) \in ReservedCodes

\* C5: when the length is accepted and the decomposed area code or exchange code
\* starts with 0 or 1, or is one of 011..911, or the exchange code ends in 11,
\* the constructor raises the invalid-code ValueError and returns no object.
C5_BadCodeRaisesCode ==
  (/\ Ran /\ CleanedAccepted
   /\ \/ BodyArea[1] \in {"0", "1"}
      \/ BodyExchange[1] \in {"0", "1"}
      \/ BodyArea \in ReservedCodes
      \/ BodyExchange \in ReservedCodes
      \/ SubSeq(BodyExchange, 2, 3) = <<"1", "1">>) =>
    (pc = "raised" /\ exc = CodeErrorExc /\ self = None)

C5_Witness ==
  /\ pc = "raised" /\ exc = CodeErrorExc /\ CleanedAccepted
  /\ BodyArea \in ReservedCodes /\ BodyArea[1] \notin {"0", "1"}
  /\ BodyExchange[1] \notin {"0", "1"} /\ SubSeq(BodyExchange, 2, 3) # <<"1", "1">>

\* the name and the number text of a line name<TAB>number<NEWLINE>
TabAt(line) == CHOOSE k \in 1..Len(line) : line[k] = "\t"
LineName(line)   == SubSeq(line, 1, TabAt(line) - 1)
LineNumber(line) == SubSeq(line, TabAt(line) + 1, Len(line) - 1)
Normalizes(line) == PhoneNumberInit(StrArg(LineNumber(line))).exc = NoExc
LineEntry(line)  == Entry(LineName(line), PhoneNumberInit(StrArg(LineNumber(line))).obj)
Occurrences(e, l) == Cardinality({i \in 1..Len(l) : l[i] = e})
GoodEntries == [i \in {k \in 1..Len(lines_read) : Normalizes(lines_read[k])}
                  |-> LineEntry(lines_read[i])]
GoodCount(e) == Cardinality({i \in DOMAIN GoodEntries : GoodEntries[i] = e})

\* C6: whatever the number texts of the lines are, read_numbers surfaces no
\* error, and its result holds exactly one entry (name, PhoneNumber) for each
\* line whose number normalizes and none for the other lines.
C6_SkipsSilently ==
  /\ dpc # "raised"
  /\ dpc = "returned" =>
       /\ Len(tup_list) = Cardinality(DOMAIN GoodEntries)
       /\ \A i \in 1..Len(tup_list) :
            Occurrences(tup_list[i], tup_list) = GoodCount(tup_list[i])

\* C7: the list read_numbers returns, and so the lines main prints, are in
\* ascending order of the integer value of the numbers: int(first) <= int(second)
\* for any two adjacent entries.
C7_SortedAscending ==
  dpc = "returned" =>
    /\ \A i \in 1..(Len(tup_list) - 1) :
         /\ PhoneInt(tup_list[i].number).ok
         /\ PhoneInt(tup_list[i + 1].number).ok
         /\ ~IntLess(PhoneInt(tup_list[i + 1].number).val, PhoneInt(tup_list[i].number).val)
    /\ \A k \in 1..Len(output) :
         output[k] = <<"(">> \o tup_list[k].number.area_code \o <<")", " ">>
                     \o tup_list[k].number.exchange_code \o <<"-">>
                     \o tup_list[k].number.line_number \o <<"\t">> \o tup_list[k].name

C7_Witness ==
  /\ dpc = "returned" /\ Len(tup_list) >= 3 /\ Len(output) = Len(tup_list)
  /\ IntLess(PhoneInt(tup_list[1].number).val, PhoneInt(tup_list[2].number).val)
  /\ IntLess(PhoneInt(tup_list[2].number).val, PhoneInt(tup_list[3].number).val)
  /\ LineEntry(lines_read[1]) = tup_list[3]

\* C8: for every constructed PhoneNumber n, PhoneNumber(str(n)) succeeds and
\* yields a number with the area_code, exchange_code and line_number of n, so
\* with the same integer value: neither is less than the other.
C8_DisplayRoundTrip ==
  (pc = "called" /\ ret.op = "reconstruct") =>
    /\ ret.exc = NoExc
    /\ ret.obj.area_code = self.area_code
    /\ ret.obj.exchange_code = self.exchange_code
    /\ ret.obj.line_number = self.line_number
    /\ PhoneInt(ret.obj) = PhoneInt(self)
    /\ PhoneLt(self, ret.obj) # "True" /\ PhoneLt(ret.obj, self) # "True"

C8_Witness ==
  /\ pc = "called" /\ ret.op = "reconstruct" /\ ret.exc = NoExc
  /\ number.kind = "str" /\ Len(number.text) = 10
  /\ self.line_number[1] = "0" /\ PhoneInt(self).ok

\* C9: every letter that survives cleaning, upper or lower case, is replaced by
\* its keypad digit and every digit is kept, so the translated string has the
\* length of the cleaned one and holds only digits, and two arguments that
\* differ only in letter case have the same outcome.
C9_KeypadEitherCase ==
  Ran =>
    /\ Len(stack) = Len(number_str)
    /\ \A i \in 1..Len(stack) : stack[i] = KeypadDigit(number_str[i])
    /\ AllDigits(stack)
    /\ (number.kind = "str" =>
          /\ exc = PhoneNumberInit(StrArg(UpperCase(number.text))).exc
          /\ self = PhoneNumberInit(StrArg(UpperCase(number.text))).obj)

\* the numbers of the entries collected so far
Collected == {tup_list[i].number : i \in 1..Len(tup_list)}

\* C10: on constructed PhoneNumbers < is irreflexive and transitive, and neither
\* a < b nor b < a holds if and only if a and b have the same three fields.
C10_StrictTotalOrder ==
  \A a \in Collected, b \in Collected :
    /\ PhoneLt(a, a) # "True"
    /\ \A c \in Collected :
         (PhoneLt(a, b) = "True" /\ PhoneLt(b, c) = "True") => PhoneLt(a, c) = "True"
    /\ (PhoneLt(a, b) # "True" /\ PhoneLt(b, a) # "True") <=> (a = b)

=============================================================================
